---- MODULE Spec2Model ----
(***************************************************************************)
(* WordleHelper (src/main.py): the constraint filter (find_words), the     *)
(* feedback evaluator (_compare_words), the suggestion engine              *)
(* (suggest_next_word) and the interactive loop with its state updater     *)
(* (interactive_mode).                                                     *)
(*                                                                         *)
(* Characters are one-element strings.  The Cyrillic letters of the        *)
(* program are written by Latin stand-ins: "a" for U+0430, "b" for U+0431, *)
(* "v", "g", "d", "e", "yo", "zh", "z", "i", "j", "k", "l", "m", "n", "o", *)
(* "p", "r", "s", "t", "u", "f", "h", "c", "ch", "sh", "sch", "hard", "y", *)
(* "soft", "eh", "yu", "ya".  "A" and "B" are the capital forms of "a" and *)
(* "b"; "latin_w", "latin_q", ... are Latin letters; "1" is a digit and   *)
(* " " a blank.  A Python str is a sequence of such characters.            *)
(***************************************************************************)
EXTENDS Integers, Sequences, FiniteSets, TLC

VARIABLES
    words_,               \* self.words, the dictionary
    known,                \* interactive_mode: known
    unknown,              \* interactive_mode: unknown
    excluded,             \* interactive_mode: excluded
    attempt,              \* interactive_mode: attempt
    last_suggested_word,  \* interactive_mode: last_suggested_word (None = <<>>)
    pc,                   \* position in the program
    found,                \* the list find_words returned last
    stats,                \* the stats find_words returned last
    outcome,              \* what the last step did
    prior,                \* the model and the line of the round just read (None otherwise)
    target,               \* the hidden word of a game (None when there is none)
    last_guess,           \* the word compared or played last
    verdict,              \* what _compare_words returned last
    call,                 \* the arguments of the call made last
    heap                  \* the list and set objects of a run of calls (<<>> otherwise)

vars == <<words_, known, unknown, excluded, attempt, last_suggested_word, pc,
          found, stats, outcome, prior, target, last_guess, verdict, call, heap>>

----------------------------------------------------------------------------
(* Characters *)

RussianLower ==
    {"a", "b", "v", "g", "d", "e", "yo", "zh", "z", "i", "j", "k", "l", "m",
     "n", "o", "p", "r", "s", "t", "u", "f", "h", "c", "ch", "sh", "sch",
     "hard", "y", "soft", "eh", "yu", "ya"}

RussianUpper == {"A", "B"}

LatinLetters ==
    {"latin_w", "latin_q", "latin_u", "latin_i", "latin_t", "latin_r", "latin_e",
     "latin_s", "latin_n"}

StatusChars == {"+", "-", "?"}

None == <<>>

\* str.lower() on one character
lower_char(c) == IF c = "A" THEN "a" ELSE IF c = "B" THEN "b" ELSE c

\* str.lower()
lower(s) == [i \in 1..Len(s) |-> lower_char(s[i])]

\* str.isalpha() on one character
isalpha(c) == c \in RussianLower \cup RussianUpper \cup LatinLetters

\* str.count(letter) / list.count(letter)
count(s, letter) == Cardinality({i \in 1..Len(s) : s[i] = letter})

\* set(s)
set(s) == {s[i] : i \in 1..Len(s)}

\* letter in s
contains(s, letter) == \E i \in 1..Len(s) : s[i] = letter

\* re.match(r'^[class]+$', s): one or more characters, all of the class
match_all(s, class) == Len(s) >= 1 /\ \A i \in 1..Len(s) : s[i] \in class

\* WordleHelper.LETTER_FREQUENCIES, in hundredths
LETTER_FREQUENCIES ==
    [l \in RussianLower |->
        CASE l = "o" -> 1097 [] l = "e" -> 845 [] l = "a" -> 801
          [] l = "i" -> 735  [] l = "n" -> 670 [] l = "t" -> 626
          [] l = "s" -> 547  [] l = "r" -> 473 [] l = "v" -> 454
          [] l = "l" -> 440  [] l = "k" -> 349 [] l = "m" -> 321
          [] l = "d" -> 298  [] l = "p" -> 281 [] l = "u" -> 262
          [] l = "ya" -> 201 [] l = "y" -> 190 [] l = "soft" -> 174
          [] l = "g" -> 170  [] l = "z" -> 165 [] l = "b" -> 159
          [] l = "ch" -> 144 [] l = "j" -> 121 [] l = "h" -> 97
          [] l = "zh" -> 94  [] l = "sh" -> 73 [] l = "yu" -> 64
          [] l = "c" -> 48   [] l = "sch" -> 36 [] l = "eh" -> 32
          [] l = "f" -> 26   [] l = "hard" -> 4 [] l = "yo" -> 4]

\* WordleHelper.STARTER_WORDS
STARTER_WORDS ==
    << <<"a","d","r","e","s">>, <<"s","t","e","n","a">>,
       <<"r","e","j","k","a">>, <<"t","o","s","k","a">>,
       <<"l","e","n","i","e">>, <<"o","k","r","a","s">> >>

----------------------------------------------------------------------------
(* find_words and its stages *)

\* _validate_inputs: TRUE when it returns, FALSE when it raises ValidationError
_validate_inputs(kn, un, ex) ==
    /\ Len(kn) = 5
    /\ match_all(lower(kn), RussianLower \cup {"_"})
    /\ (un # <<>> => match_all(lower(un), RussianLower))
    /\ (ex # <<>> => match_all(lower(ex), RussianLower))

\* _check_conflicts, conflict 1: letters both in known and in excluded
conflicts_excluded(kn, ex) == (set(kn) \ {"_"}) \cap set(ex)

\* _check_conflicts, conflict 2: letters both in unknown and in excluded
conflicts_both(un, ex) == set(un) \cap set(ex)

\* as _check_conflicts, with the known/unknown conflict of the earlier versions
_check_conflicts_strict(kn, un, ex) ==
    /\ conflicts_excluded(kn, ex) = {}
    /\ conflicts_both(un, ex) = {}
    /\ (set(kn) \ {"_"}) \cap set(un) = {}

\* as _check_conflicts, without conflict 2
_check_conflicts_known_only(kn, un, ex) ==
    conflicts_excluded(kn, ex) = {}

\* _check_conflicts: TRUE when it returns, FALSE when it raises ValidationError
_check_conflicts(kn, un, ex) ==
    /\ conflicts_excluded(kn, ex) = {}
    /\ conflicts_both(un, ex) = {}

\* _generate_pattern: '_' becomes the regular expression's '.'
_generate_pattern(kn) == [i \in 1..Len(kn) |-> IF kn[i] = "_" THEN "." ELSE kn[i]]

\* re.compile('^' + pattern + '$').match(word), for a pattern of letters and '.'
regex_match(pattern, word) ==
    /\ Len(word) = Len(pattern)
    /\ \A i \in 1..Len(pattern) : pattern[i] = "." \/ pattern[i] = word[i]

\* _filter_words_by_pattern
_filter_words_by_pattern(ws, pattern) ==
    LET keep(w) == regex_match(pattern, w) IN SelectSeq(ws, keep)

\* as _filter_words_by_inclusion, with set(unknown) in place of the Counter
_filter_words_by_inclusion_set(ws, un) ==
    LET keep(w) == \A letter \in set(un) : count(w, letter) >= 1
    IN  SelectSeq(ws, keep)

\* _filter_words_by_inclusion
_filter_words_by_inclusion(ws, un) ==
    LET keep(w) == \A letter \in set(un) : count(w, letter) >= count(un, letter)
    IN  SelectSeq(ws, keep)

\* _filter_words_by_exclusion
_filter_words_by_exclusion(ws, ex) ==
    LET keep(w) == ~ \E i \in 1..Len(w) : w[i] \in set(ex)
    IN  SelectSeq(ws, keep)

\* Python floats (IEEE 754 binary64). The model holds the floats x with
\* 2^-10 <= x < 2^12, and 0.0, that are whole multiples of 2^-63: every
\* float the program computes from its letter table and its scores is one.
\* x is [hi, mid, lo], three digits of base Limb with
\* x * 2^63 = hi * Limb^2 + mid * Limb + lo.
LimbBits == 23

RECURSIVE pow2(_)
pow2(k) == IF k = 0 THEN 1 ELSE 2 * pow2(k - 1)

Limb == pow2(LimbBits)

\* the number of binary digits of the integer k >= 1
RECURSIVE bit_length(_)
bit_length(k) == IF k <= 1 THEN 1 ELSE 1 + bit_length(k \div 2)

\* the digits brought back into 0..Limb-1, carrying upwards (borrowing, for
\* digits below 0)
carry_limbs(hi, mid, lo) ==
    [hi  |-> hi + (mid + lo \div Limb) \div Limb,
     mid |-> (mid + lo \div Limb) % Limb,
     lo  |-> lo % Limb]

\* float(g) for an int 0 <= g < 2^12
float_of_int(g) == [hi |-> g * pow2(63 - 2 * LimbBits), mid |-> 0, lo |-> 0]

\* the number of low binary digits that a float of the size of y drops: it
\* keeps 53 significant digits from the leading one
dropped_digits(y) ==
    IF y.hi = 0 THEN 0 ELSE bit_length(y.hi) + 2 * LimbBits - 53

\* round to nearest, ties to even: the float nearest to x + (a rest below
\* the last digit of x, when inexact); y is the value of x and d the number
\* of digits it drops, each taken once
round_float(x, inexact) ==
    LET rounded(y, d) ==
            IF d <= 0 THEN y
            ELSE LET unit == pow2(d)
                     rest == y.lo % unit
                     odd  == (y.lo \div unit) % 2 = 1
                 IN  IF \/ 2 * rest > unit
                        \/ 2 * rest = unit /\ (inexact \/ odd)
                     THEN carry_limbs(y.hi, y.mid, y.lo - rest + unit)
                     ELSE [y EXCEPT !.lo = y.lo - rest]
    IN  CHOOSE r \in {rounded(yd[1], yd[2]) :
                         yd \in {<<y, dropped_digits(y)>> : y \in {x}}} : TRUE

\* x + y; a and b are the values of x and y, taken once
float_add(x, y) ==
    CHOOSE r \in {round_float(carry_limbs(ab[1].hi + ab[2].hi, ab[1].mid + ab[2].mid,
                                          ab[1].lo + ab[2].lo), FALSE) :
                     ab \in {<<x, y>>}} : TRUE

\* x - y for x >= y
float_minus(x, y) ==
    CHOOSE r \in {round_float(carry_limbs(ab[1].hi - ab[2].hi, ab[1].mid - ab[2].mid,
                                          ab[1].lo - ab[2].lo), FALSE) :
                     ab \in {<<x, y>>}} : TRUE

\* m / n for ints 0 <= m < 2^12 and 1 <= n < 2^8, by long division: each
\* step gives one digit of base Limb and the remainder left after it
float_div(m, n) ==
    LET top == m * pow2(63 - 2 * LimbBits)
        r1  == top % n
        r2  == (r1 * Limb) % n
        r3  == (r2 * Limb) % n
    IN  round_float([hi  |-> top \div n,
                     mid |-> (r1 * Limb) \div n,
                     lo  |-> (r2 * Limb) \div n], r3 # 0)

\* x < y
float_less(x, y) ==
    \/ x.hi < y.hi
    \/ x.hi = y.hi /\ x.mid < y.mid
    \/ x.hi = y.hi /\ x.mid = y.mid /\ x.lo < y.lo

\* the float of a literal of two decimals, given in hundredths: the float
\* nearest to h / 100
float_literal(h) == float_div(h, 100)

\* LETTER_FREQUENCIES.get(letter, 0)
letter_frequency(letter) ==
    IF letter \in DOMAIN LETTER_FREQUENCIES
    THEN float_literal(LETTER_FREQUENCIES[letter]) ELSE float_of_int(0)

\* _sort_by_frequency.word_frequency_score over the first n letters: sum()
\* adds the floats from the left, starting from 0, and rounds after every
\* addition
RECURSIVE score_upto(_, _)
score_upto(word, n) ==
    IF n = 0 THEN float_of_int(0)
    ELSE CHOOSE s \in {float_add(before, letter_frequency(word[n])) :
                          before \in {score_upto(word, n - 1)}} : TRUE

word_frequency_score(word) == score_upto(word, Len(word))

\* the keys that sorted computes, one per word
sort_keys(ws) == [i \in 1..Len(ws) |-> word_frequency_score(ws[i])]

\* the place (1-based) that sorted(..., reverse=True) gives to the entry i
\* of the keys: after the entries of higher key and, the sort being stable,
\* after the earlier entries of an equal key
sorted_place(keys, i) ==
    1 + Cardinality({j \in 1..Len(keys) :
            \/ float_less(keys[i], keys[j])
            \/ keys[j] = keys[i] /\ j < i})

\* _sort_by_frequency: sorted(words, key=word_frequency_score, reverse=True);
\* s is the value of ws, keys the value of sort_keys and places the places of
\* the entries, each taken once
_sort_by_frequency(ws) ==
    LET sorted(s, places) ==
            SubSeq([k \in 1..Len(s) |-> s[CHOOSE i \in 1..Len(s) : places[i] = k]],
                   1, Len(s))
        placed(s, keys) ==
            CHOOSE result \in {sorted(s, places) :
                                  places \in {SubSeq([i \in 1..Len(s) |-> sorted_place(keys, i)],
                                                     1, Len(s))}} : TRUE
    IN  CHOOSE result \in {placed(sk[1], sk[2]) :
                              sk \in {<<s, SubSeq(sort_keys(s), 1, Len(s))>> : s \in {ws}}} : TRUE

\* lines 96-98: the words matching the pattern of known
stage_pattern(ws, kn) == _filter_words_by_pattern(ws, _generate_pattern(kn))

\* lines 102-103
stage_inclusion(filtered_words, un) ==
    IF un # <<>> THEN _filter_words_by_inclusion(filtered_words, un) ELSE filtered_words

\* lines 107-108
stage_exclusion(filtered_words, ex) ==
    IF ex # <<>> THEN _filter_words_by_exclusion(filtered_words, ex) ELSE filtered_words

\* lines 112-113
stage_sort(filtered_words, sort_by_frequency) ==
    IF sort_by_frequency /\ filtered_words # <<>>
    THEN _sort_by_frequency(filtered_words) ELSE filtered_words

\* limit=None, the default of find_words (line 79); a limit that is an int n
\* is written <<n>>
NoLimit == None

\* the slice s[:n]: the first n entries, and for n < 0 all but the last -n
slice_to(s, n) ==
    IF n >= Len(s) THEN s
    ELSE IF n >= 0 THEN SubSeq(s, 1, n)
    ELSE IF Len(s) + n > 0 THEN SubSeq(s, 1, Len(s) + n)
    ELSE <<>>

\* line 116: `limit and len(filtered_words) > limit` is false for None and
\* for 0, and true for every int below 0
limit_applies(filtered_words, limit) ==
    limit # NoLimit /\ limit[1] # 0 /\ Len(filtered_words) > limit[1]

\* lines 116-117
stage_limit(filtered_words, limit) ==
    IF limit_applies(filtered_words, limit)
    THEN slice_to(filtered_words, limit[1])
    ELSE filtered_words

\* the stats dictionary of lines 93-109
find_stats(ws, un, ex, after_pattern, after_inclusion, after_exclusion) ==
    [k \in {"original", "after_pattern"}
           \cup (IF un # <<>> THEN {"after_inclusion"} ELSE {})
           \cup (IF ex # <<>> THEN {"after_exclusion"} ELSE {}) |->
        CASE k = "original"        -> Len(ws)
          [] k = "after_pattern"   -> Len(after_pattern)
          [] k = "after_inclusion" -> Len(after_inclusion)
          [] k = "after_exclusion" -> Len(after_exclusion)]

\* find_words: [raised, words, stats]; when ValidationError is raised no list
\* and no stats exist yet
find_words(ws, kn, un, ex, sort_by_frequency, limit) ==
    IF ~ _validate_inputs(kn, un, ex) \/ ~ _check_conflicts(lower(kn), lower(un), lower(ex))
    THEN [raised |-> TRUE, words |-> <<>>, stats |-> <<>>]
    ELSE LET after_pattern   == stage_pattern(ws, lower(kn))
             after_inclusion == stage_inclusion(after_pattern, lower(un))
             after_exclusion == stage_exclusion(after_inclusion, lower(ex))
             sorted_words    == stage_sort(after_exclusion, sort_by_frequency)
         IN  [raised |-> FALSE,
              words  |-> stage_limit(sorted_words, limit),
              stats  |-> find_stats(ws, un, ex, after_pattern, after_inclusion,
                                    after_exclusion)]

----------------------------------------------------------------------------
(* _compare_words and suggest_next_word *)

Min(a, b) == IF a <= b THEN a ELSE b

\* as _compare_words, with every occurrence of a target letter used once
_compare_words_consuming(guess, tgt) ==
    [i \in 1..Min(Len(guess), Len(tgt)) |->
        IF guess[i] = tgt[i] THEN "+"
        ELSE IF count(tgt, guess[i])
                  > Cardinality({j \in 1..Min(Len(guess), Len(tgt)) :
                                   guess[j] = guess[i] /\ (tgt[j] = guess[j] \/ j < i)})
             THEN "?"
        ELSE "-"]

\* _compare_words: one of '+', '?', '-' per pair of zip(guess, target)
_compare_words(guess, tgt) ==
    [i \in 1..Min(Len(guess), Len(tgt)) |->
        IF guess[i] = tgt[i] THEN "+"
        ELSE IF contains(tgt, guess[i]) THEN "?"
        ELSE "-"]

\* as available_starters, the excluded letters not looked at
available_starters_any(ws, excluded_letters) ==
    LET keep(w) == contains(ws, w) IN SelectSeq(STARTER_WORDS, keep)

\* suggest_next_word, no candidates: the starters that are in the dictionary
\* and hold no excluded letter
available_starters(ws, excluded_letters) ==
    LET keep(w) == contains(ws, w) /\ ~ \E i \in 1..Len(w) : w[i] \in excluded_letters
    IN  SelectSeq(STARTER_WORDS, keep)

\* suggest_next_word, lines 250-253: the word agrees with every known slot
known_valid(word, kn) ==
    \A i \in 1..Len(kn) : kn[i] = "_" \/ (i <= Len(word) /\ word[i] = kn[i])

\* suggest_next_word, lines 245-257: at most 20 dictionary words, in
\* dictionary order, with no excluded letter and agreeing with known
additional_candidates(ws, excluded_letters, kn) ==
    LET keep(w) == (~ \E i \in 1..Len(w) : w[i] \in excluded_letters) /\ known_valid(w, kn)
        all == SelectSeq(ws, keep)
    IN  SubSeq(all, 1, Min(Len(all), 20))

\* suggest_next_word, lines 242-259: the pool of words that are scored
candidate_words(ws, current_words, excluded_letters, kn) ==
    SubSeq(current_words, 1, Min(Len(current_words), 10))
        \o additional_candidates(ws, excluded_letters, kn)

\* line 265: the pattern of each of the current words, in their order
patterns(candidate, current_words) ==
    SubSeq([j \in 1..Len(current_words) |->
               SubSeq(_compare_words(candidate, current_words[j]), 1,
                      Min(Len(candidate), Len(current_words[j])))],
           1, Len(current_words))

\* the groups of lines 263-266: pattern -> number of current words giving it;
\* ps is the value of patterns, taken once
groups(candidate, current_words) ==
    LET counted(ps) ==
            [p \in {ps[j] : j \in 1..Len(ps)} |->
                Cardinality({j \in 1..Len(ps) : ps[j] = p})]
    IN  CHOOSE g \in {counted(ps) : ps \in {patterns(candidate, current_words)}} : TRUE

\* line 270, max(groups.values()); the sizes are taken once
max_group(candidate, current_words) ==
    LET largest(sizes) == CHOOSE m \in sizes : \A k \in sizes : k <= m
    IN  CHOOSE m \in {largest(sizes) :
                         sizes \in {{g[p] : p \in DOMAIN g} :
                                       g \in {groups(candidate, current_words)}}} : TRUE

\* g - q for an int g >= 1 and a float 0 < q <= 1
float_sub(g, q) == float_minus(float_of_int(g), q)

\* x + 0.5
float_add_half(x) == float_add(x, float_div(1, 2))

\* lines 270-272 for len(groups) = g, max(groups.values()) = m,
\* len(current_words) = n: g - m / n + is_from_results * 0.5, each float taken
\* once
float_score(g, m, n, is_from_results) ==
    CHOOSE r \in {IF is_from_results = 1 THEN float_add_half(diversity_score)
                  ELSE diversity_score :
                     diversity_score \in {float_sub(g, q) : q \in {float_div(m, n)}}} : TRUE

\* lines 270-272: the score of a candidate, a float; gm is the number of
\* groups and the largest of them, taken once
score(candidate, current_words) ==
    CHOOSE r \in {float_score(gm[1], gm[2], gm[3], gm[4]) :
                     gm \in {<<Cardinality(DOMAIN groups(candidate, current_words)),
                               max_group(candidate, current_words),
                               Len(current_words),
                               IF contains(current_words, candidate) THEN 1 ELSE 0>>}} : TRUE

\* the pairs <<place in the pool, score>>
pool_scores(pool, current_words) ==
    {<<i, score(pool[i], current_words)>> : i \in 1..Len(pool)}

\* as best_word, a later word replacing best_word with an equal score too
best_word_last(pool, current_words) ==
    IF pool = <<>> THEN None
    ELSE LET last_best(scores) ==
                 CHOOSE best \in scores : \A other \in scores :
                     \/ float_less(other[2], best[2])
                     \/ other[2] = best[2] /\ other[1] <= best[1]
         IN  CHOOSE w \in {pool[last_best(scores)[1]] :
                              scores \in {pool_scores(pool, current_words)}} : TRUE

\* lines 261-276: best_word after the loop, None for an empty pool. Every
\* score is above the initial -1, and a later word replaces best_word only
\* with a strictly higher score, so it is the first word of the highest
\* score; scores is the value of pool_scores, taken once.
best_word(pool, current_words) ==
    IF pool = <<>> THEN None
    ELSE LET first_best(scores) ==
                 CHOOSE best \in scores : \A other \in scores :
                     \/ float_less(other[2], best[2])
                     \/ other[2] = best[2] /\ other[1] >= best[1]
         IN  CHOOSE w \in {pool[first_best(scores)[1]] :
                              scores \in {pool_scores(pool, current_words)}} : TRUE

\* as suggest_next_word, the middle of a short list taken as the rank
\* len // 2 counted from 1
suggest_next_word_rank(ws, current_words, excluded_letters, kn, un, choice) ==
    IF current_words = <<>> THEN
        IF available_starters(ws, excluded_letters) # <<>>
        THEN available_starters(ws, excluded_letters)[1]
        ELSE ws[choice]
    ELSE IF Len(current_words) <= 2 THEN current_words[1]
    ELSE IF Len(current_words) <= 5 THEN current_words[Len(current_words) \div 2]
    ELSE LET best == CHOOSE b \in {best_word(pool, current_words) :
                          pool \in {candidate_words(ws, current_words, excluded_letters, kn)}} : TRUE
         IN  IF best # None THEN best ELSE current_words[1]

\* suggest_next_word; choice is the index random.choice draws, pool the
\* value of candidate_words, taken once
suggest_next_word(ws, current_words, excluded_letters, kn, un, choice) ==
    IF current_words = <<>> THEN
        IF available_starters(ws, excluded_letters) # <<>>
        THEN available_starters(ws, excluded_letters)[1]
        ELSE ws[choice]
    ELSE IF Len(current_words) <= 2 THEN current_words[1]
    ELSE IF Len(current_words) <= 5 THEN current_words[(Len(current_words) \div 2) + 1]
    ELSE LET best == CHOOSE b \in {best_word(pool, current_words) :
                          pool \in {candidate_words(ws, current_words, excluded_letters, kn)}} : TRUE
         IN  IF best # None THEN best ELSE current_words[1]

----------------------------------------------------------------------------
(* interactive_mode: reading a line *)

\* str.strip(), on blanks
RECURSIVE lstrip(_)
lstrip(s) == IF s # <<>> /\ Head(s) = " " THEN lstrip(Tail(s)) ELSE s

RECURSIVE rstrip(_)
rstrip(s) ==
    IF s # <<>> /\ s[Len(s)] = " " THEN rstrip(SubSeq(s, 1, Len(s) - 1)) ELSE s

strip(s) == rstrip(lstrip(s))

\* the length of the run of non-blank characters s starts with
RECURSIVE first_run(_)
first_run(s) == IF s = <<>> \/ Head(s) = " " THEN 0 ELSE 1 + first_run(Tail(s))

\* str.split(maxsplit=1): the list of parts
split1(s) ==
    LET t    == lstrip(s)
        n    == first_run(t)
        rest == lstrip(SubSeq(t, n + 1, Len(t)))
    IN  IF t = <<>> THEN <<>>
        ELSE IF rest = <<>> THEN <<SubSeq(t, 1, n)>>
        ELSE <<SubSeq(t, 1, n), rest>>

\* lines 350 and 354: the control words
QuitWords ==
    { <<"latin_q","latin_u","latin_i","latin_t">>, <<"v","y","h","o","d">>, <<"latin_q">> }

ResetWords ==
    { <<"latin_r","latin_e","latin_s","latin_e","latin_t">>, <<"s","b","r","o","s">>,
      <<"latin_n","latin_e","latin_w">>, <<"n","o","v","o","e">> }

\* lines 390-404: the (status, letter) pairs read from result_input, from
\* index i on (1-based), given those parsed so far
RECURSIVE parse_from(_, _, _)
parse_from(result_input, i, parsed_results) ==
    IF ~ (i <= Len(result_input) /\ Len(parsed_results) < 5) THEN parsed_results
    ELSE IF result_input[i] \in StatusChars
         THEN IF i + 1 <= Len(result_input) /\ isalpha(result_input[i + 1])
              THEN parse_from(result_input, i + 2,
                      Append(parsed_results,
                             <<result_input[i], lower_char(result_input[i + 1])>>))
              ELSE parsed_results
         ELSE parse_from(result_input, i + 1, parsed_results)

parse_results(result_input) == parse_from(result_input, 1, <<>>)

\* lines 368-382: [ok, word, result_input] from the parts of the line
read_parts(line, last) ==
    LET parts == split1(line)
    IN  IF Len(parts) = 1 /\ last # None
        THEN [ok |-> TRUE, word |-> last, result_input |-> parts[1]]
        ELSE IF Len(parts) = 2
        THEN [ok |-> TRUE, word |-> parts[1], result_input |-> parts[2]]
        ELSE [ok |-> FALSE, word |-> <<>>, result_input |-> <<>>]

\* lines 364-410: the five pairs of an accepted line, None for a line that
\* is rejected (or empty)
accepted_pairs(line, last) ==
    LET r == read_parts(line, last)
    IN  IF line = <<>> \/ ~ r.ok THEN None
        ELSE IF Len(lower(r.word)) # 5 THEN None
        ELSE IF Len(parse_results(r.result_input)) # 5 THEN None
        ELSE parse_results(r.result_input)

----------------------------------------------------------------------------
(* interactive_mode: the state update, lines 412-457 *)

\* as pass1, with the first pair skipped
pass1_from_second(kn, parsed_results) ==
    [i \in 1..Len(kn) |->
        IF 1 < i /\ i <= Len(parsed_results) /\ parsed_results[i][1] = "+"
        THEN parsed_results[i][2] ELSE kn[i]]

\* lines 418-420, pass 1: every '+' fixes its letter
pass1(kn, parsed_results) ==
    [i \in 1..Len(kn) |->
        IF i <= Len(parsed_results) /\ parsed_results[i][1] = "+"
        THEN parsed_results[i][2] ELSE kn[i]]

\* list.remove(letter): the first occurrence goes
RECURSIVE remove_first(_, _)
remove_first(new_unknown, letter) ==
    IF new_unknown = <<>> THEN <<>>
    ELSE IF Head(new_unknown) = letter THEN Tail(new_unknown)
    ELSE <<Head(new_unknown)>> \o remove_first(Tail(new_unknown), letter)

\* lines 428-429: while letter in new_unknown: new_unknown.remove(letter)
remove_letter(new_unknown, letter) ==
    LET keep(x) == x # letter IN SelectSeq(new_unknown, keep)

\* as present_elsewhere, without the branch of line 440
present_elsewhere_once(known_string, new_unknown, letter) ==
    IF count(known_string, letter) + count(new_unknown, letter) = 0
    THEN Append(new_unknown, letter)
    ELSE new_unknown

\* lines 433-443: new_unknown after a '?' pair
present_elsewhere(known_string, new_unknown, letter) ==
    LET known_count     == count(known_string, letter)
        unknown_count   == count(new_unknown, letter)
        total_confirmed == known_count + unknown_count
    IN  IF total_confirmed = 0 THEN Append(new_unknown, letter)
        ELSE IF known_count > 0 THEN Append(new_unknown, letter)
        ELSE new_unknown

\* as absent, looking at the known slots only
absent_known_only(known_string, new_unknown, new_excluded, letter) ==
    IF ~ contains(known_string, letter)
    THEN IF ~ contains(new_excluded, letter) THEN Append(new_excluded, letter)
         ELSE new_excluded
    ELSE new_excluded

\* lines 448-451: new_excluded after a '-' pair
absent(known_string, new_unknown, new_excluded, letter) ==
    IF ~ contains(known_string, letter) /\ ~ contains(new_unknown, letter)
    THEN IF ~ contains(new_excluded, letter) THEN Append(new_excluded, letter)
         ELSE new_excluded
    ELSE new_excluded

\* lines 423-453, one pair of pass 2: <<new_unknown, new_excluded>> after it
pass2_pair(known_string, st, pair) ==
    IF pair[1] = "+" THEN <<remove_letter(st[1], pair[2]), st[2]>>
    ELSE IF pair[1] = "?" THEN <<present_elsewhere(known_string, st[1], pair[2]), st[2]>>
    ELSE IF pair[1] = "-" THEN <<st[1], absent(known_string, st[1], st[2], pair[2])>>
    ELSE st

\* pass 2 over the first n pairs
RECURSIVE pass2(_, _, _, _)
pass2(known_string, st, parsed_results, n) ==
    IF n = 0 THEN st
    ELSE pass2_pair(known_string,
                    pass2(known_string, st, parsed_results, n - 1),
                    parsed_results[n])

\* lines 412-457: <<known, unknown, excluded>> after the round
update(kn, un, ex, parsed_results) ==
    LET new_known == pass1(kn, parsed_results)
        st        == pass2(new_known, <<un, ex>>, parsed_results, Len(parsed_results))
    IN  <<new_known, st[1], st[2]>>

----------------------------------------------------------------------------
(* Bounds and the inputs drawn *)

\* the feedback rounds a session may accept stop once attempt reaches this
MaxAttempt == 3

\* the longest run of pairs in a malformed result line
MaxPairs == 6

\* find_words called directly: the most fixed slots of known, the longest
\* unknown and excluded, the largest limit
MaxFixed == 2
MaxLetters == 2
MaxLimit == 2

\* limit=50 of the call at line 314
InteractiveLimit == 50

\* suggest_next_word called directly: the longest candidate list
MaxCandidates == 11

almaz == <<"a","l","m","a","z">>
avans == <<"a","v","a","n","s">>
ambar == <<"a","m","b","a","r">>
abzac == <<"a","b","z","a","c">>
babka == <<"b","a","b","k","a">>
kabak == <<"k","a","b","a","k">>
tabak == <<"t","a","b","a","k">>
ataka == <<"a","t","a","k","a">>
kazak == <<"k","a","z","a","k">>
balka == <<"b","a","l","k","a">>
avtor == <<"a","v","t","o","r">>
kaban == <<"k","a","b","a","n">>
valka == <<"v","a","l","k","a">>
banka == <<"b","a","n","k","a">>
barak == <<"b","a","r","a","k">>
bazar == <<"b","a","z","a","r">>
kabel == <<"k","a","b","e","l">>
kanal == <<"k","a","n","a","l">>
karta == <<"k","a","r","t","a">>
kasta == <<"k","a","s","t","a">>
lavka == <<"l","a","v","k","a">>
lampa == <<"l","a","m","p","a">>
marka == <<"m","a","r","k","a">>
maska == <<"m","a","s","k","a">>
nabat == <<"n","a","b","a","t">>
palka == <<"p","a","l","k","a">>
rabat == <<"r","a","b","a","t">>
salat == <<"s","a","l","a","t">>
tanka == <<"t","a","n","k","a">>
toska == <<"t","o","s","k","a">>
stena == <<"s","t","e","n","a">>
okras == <<"o","k","r","a","s">>

\* the dictionary of the sessions with arbitrary lines
LoopDict == <<almaz, avans, ambar, abzac, babka, kabak, tabak>>

\* a dictionary that holds a word twice
DupDict == <<avans, almaz, kabak, tabak, babka, avans, ambar, avtor>>

Verdicts == [1..5 -> StatusChars]

\* the result line '<status><letter>...' of a word and a verdict
pairs_line(word, v) ==
    [i \in 1..(2 * Len(v)) |-> IF i % 2 = 1 THEN v[(i + 1) \div 2] ELSE word[i \div 2]]

\* the line '<word> <status><letter>...'
word_line(word, v) == word \o <<" ">> \o pairs_line(word, v)

\* words a user plays against the suggestion, with any verdict
GuessPool == {ataka, babka}

\* a run of n '?' pairs over the letters of almaz
pair_run(n) ==
    [i \in 1..(2 * n) |->
        IF i % 2 = 1 THEN "?" ELSE almaz[((((i \div 2) - 1) % 5)) + 1]]

MalformedBodies ==
    {pair_run(n) \o tail : n \in 0..MaxPairs,
                           tail \in {<<>>, <<"+">>, <<"+", "1">>, <<"1">>}}
    \cup {<<"1">> \o pair_run(5),
          pair_run(2) \o <<"1", " ">> \o pair_run(3),
          <<"+", "A">> \o pair_run(4),
          <<"+", "latin_w">> \o pair_run(4),
          almaz}

MalformedLines ==
    MalformedBodies
    \cup {w \o <<" ">> \o b : w \in {almaz, <<"a","l","m","a">>}, b \in MalformedBodies}

CommandLines == QuitWords \cup ResetWords \cup {<<>>, <<" ">>, <<" ", "latin_q", " ">>}

\* '<word> <pairs>' for the words of GuessPool, with any verdict
WordLines == {word_line(g, v) : g \in GuessPool, v \in Verdicts}

OtherLines == MalformedLines \cup CommandLines

----------------------------------------------------------------------------
(* interactive_mode: the loop *)

Blank5 == <<"_", "_", "_", "_", "_">>

\* lines 305-309
InitSession ==
    /\ known = Blank5
    /\ unknown = <<>>
    /\ excluded = <<>>
    /\ attempt = 1
    /\ last_suggested_word = None
    /\ pc = "find"
    /\ found = <<>>
    /\ stats = <<>>
    /\ outcome = "start"
    /\ prior = None
    /\ last_guess = None
    /\ verdict = <<>>
    /\ call = None
    /\ heap = <<>>

\* lines 311-341: find the candidates, show them, suggest a word
Round ==
    /\ pc = "find"
    /\ \E r \in {find_words(words_, known, unknown, excluded, TRUE, <<InteractiveLimit>>)} :
           IF r.raised
           THEN /\ pc' = "except"
                /\ outcome' = "error"
                /\ UNCHANGED <<found, stats, last_suggested_word>>
           ELSE /\ found' = r.words
                /\ stats' = r.stats
                /\ IF r.words = <<>>
                   THEN /\ pc' = "done"
                        /\ outcome' = "no_words"
                        /\ UNCHANGED last_suggested_word
                   ELSE IF Len(r.words) > 1
                   THEN /\ last_suggested_word' =
                              suggest_next_word(words_, r.words, set(excluded),
                                                known, unknown, 1)
                        /\ pc' = "prompt"
                        /\ outcome' = "suggested"
                   ELSE /\ pc' = "done"
                        /\ outcome' = "answer"
                        /\ UNCHANGED last_suggested_word
    /\ prior' = None
    /\ UNCHANGED <<heap, words_, known, unknown, excluded, attempt, target, last_guess,
                   verdict, call>>

\* lines 465-467: except Exception: print, continue
ExceptContinue ==
    /\ pc = "except"
    /\ pc' = "find"
    /\ outcome' = "continue"
    /\ UNCHANGED <<heap, words_, known, unknown, excluded, attempt, last_suggested_word,
                   found, stats, prior, target, last_guess, verdict, call>>

\* as Feedback, the reset command leaving the suggested word remembered
Feedback_remembering(line) ==
    /\ pc = "prompt"
    /\ prior' = [known |-> known, unknown |-> unknown, excluded |-> excluded,
                 attempt |-> attempt, last |-> last_suggested_word, line |-> line]
    /\ \E user_input \in {strip(line)} :
       \E pairs \in {accepted_pairs(user_input, last_suggested_word)} :
       \E new \in {IF pairs = None THEN None
                   ELSE update(known, unknown, excluded, pairs)} :
           IF lower(user_input) \in QuitWords
           THEN /\ pc' = "done"
                /\ outcome' = "quit"
                /\ UNCHANGED <<known, unknown, excluded, attempt, last_suggested_word>>
           ELSE IF lower(user_input) \in ResetWords
           THEN /\ known' = Blank5
                /\ unknown' = <<>>
                /\ excluded' = <<>>
                /\ attempt' = 1
                /\ UNCHANGED last_suggested_word
                /\ pc' = "find"
                /\ outcome' = "reset"
           ELSE IF user_input = <<>>
           THEN /\ pc' = "find"
                /\ outcome' = "empty"
                /\ UNCHANGED <<known, unknown, excluded, attempt, last_suggested_word>>
           ELSE IF pairs = None
           THEN /\ pc' = "find"
                /\ outcome' = "rejected"
                /\ UNCHANGED <<known, unknown, excluded, attempt, last_suggested_word>>
           ELSE /\ attempt < MaxAttempt
                /\ known' = new[1]
                /\ unknown' = new[2]
                /\ excluded' = new[3]
                /\ attempt' = attempt + 1
                /\ pc' = "find"
                /\ outcome' = "accepted"
                /\ UNCHANGED last_suggested_word
    /\ UNCHANGED <<heap, words_, found, stats, target, call>>

\* lines 348-460: one line read at the prompt
Feedback(line) ==
    /\ pc = "prompt"
    /\ prior' = [known |-> known, unknown |-> unknown, excluded |-> excluded,
                 attempt |-> attempt, last |-> last_suggested_word, line |-> line]
    /\ \E user_input \in {strip(line)} :
       \E pairs \in {accepted_pairs(user_input, last_suggested_word)} :
       \E new \in {IF pairs = None THEN None
                   ELSE update(known, unknown, excluded, pairs)} :
           IF lower(user_input) \in QuitWords
           THEN /\ pc' = "done"
                /\ outcome' = "quit"
                /\ UNCHANGED <<known, unknown, excluded, attempt, last_suggested_word>>
           ELSE IF lower(user_input) \in ResetWords
           THEN /\ known' = Blank5
                /\ unknown' = <<>>
                /\ excluded' = <<>>
                /\ attempt' = 1
                /\ last_suggested_word' = None
                /\ pc' = "find"
                /\ outcome' = "reset"
           ELSE IF user_input = <<>>
           THEN /\ pc' = "find"
                /\ outcome' = "empty"
                /\ UNCHANGED <<known, unknown, excluded, attempt, last_suggested_word>>
           ELSE IF pairs = None
           THEN /\ pc' = "find"
                /\ outcome' = "rejected"
                /\ UNCHANGED <<known, unknown, excluded, attempt, last_suggested_word>>
           ELSE /\ attempt < MaxAttempt
                /\ known' = new[1]
                /\ unknown' = new[2]
                /\ excluded' = new[3]
                /\ attempt' = attempt + 1
                /\ pc' = "find"
                /\ outcome' = "accepted"
                /\ UNCHANGED last_suggested_word
    /\ UNCHANGED <<heap, words_, found, stats, target, call>>

\* the user types any line
Input ==
    /\ \/ \E line \in WordLines : Feedback(line)
       \/ \E v \in Verdicts : Feedback(pairs_line(last_suggested_word, v))
       \/ \E line \in OtherLines : Feedback(line)
    /\ UNCHANGED <<last_guess, verdict>>

Init ==
    /\ words_ = LoopDict
    /\ target = None
    /\ InitSession

Next == Round \/ ExceptContinue \/ Input

\* a session in which the user may type any line
Spec == Init /\ [][Next]_vars

\* the same, with the program's own steps always taken
FairSpec == Spec /\ WF_vars(Round) /\ WF_vars(ExceptContinue)

----------------------------------------------------------------------------
(* A game: every line is the played word with _compare_words(word, target) *)

GameDicts == {LoopDict, DupDict}

GamePool == set(LoopDict) \cup {ataka}

InitGame ==
    /\ words_ \in GameDicts
    /\ target \in set(words_)
    /\ InitSession

\* the user plays a word of the pool or the suggested word and types the
\* verdict of the target
Play ==
    \E g \in GamePool \cup {last_suggested_word} :
        /\ Feedback(word_line(g, _compare_words(g, target)))
        /\ last_guess' = g
        /\ verdict' = _compare_words(g, target)

NextGame == Round \/ Play

SpecGame == InitGame /\ [][NextGame]_vars

----------------------------------------------------------------------------
(* find_words called directly *)

FindLetters == {"a", "b"}

\* the last dictionary holds words of the same letters, whose float scores
\* differ with the order of the letters
FindDicts == {DupDict, <<ataka, babka, almaz>>, <<banka, kaban, lavka, valka>>}

KnownPool ==
    {kn \in [1..5 -> FindLetters \cup {"_"}] :
        Cardinality({i \in 1..5 : kn[i] # "_"}) <= MaxFixed}

LetterSeqs == UNION {[1..n -> FindLetters] : n \in 0..MaxLetters}

InitFind ==
    /\ words_ \in FindDicts
    /\ known \in KnownPool
    /\ unknown \in LetterSeqs
    /\ excluded \in LetterSeqs
    /\ attempt = 1
    /\ last_suggested_word = None
    /\ pc = "call"
    /\ found = <<>>
    /\ stats = <<>>
    /\ outcome = "start"
    /\ prior = None
    /\ target = None
    /\ last_guess = None
    /\ verdict = <<>>
    /\ call = None
    /\ heap = <<>>

\* results, stats = helper.find_words(known, unknown, excluded, sort, limit)
CallFind ==
    /\ pc = "call"
    /\ \E sort_by_frequency \in BOOLEAN, limit \in {NoLimit} \cup {<<n>> : n \in (-MaxLimit)..MaxLimit} :
       \E r \in {find_words(words_, known, unknown, excluded, sort_by_frequency, limit)} :
          /\ found' = r.words
          /\ stats' = r.stats
          /\ outcome' = IF r.raised THEN "error" ELSE "returned"
          /\ call' = [sort_by_frequency |-> sort_by_frequency, limit |-> limit]
    /\ pc' = "ret"
    /\ UNCHANGED <<heap, words_, known, unknown, excluded, attempt, last_suggested_word,
                   prior, target, last_guess, verdict>>

NextFind == CallFind

SpecFind == InitFind /\ [][NextFind]_vars

----------------------------------------------------------------------------
(* suggest_next_word called directly *)

\* a dictionary with more than 20 words that have 'a' in the second slot
BigDict ==
    <<almaz, babka, kabak, tabak, avans, kazak, balka, bazar, kabel, kanal, karta,
      kasta, lavka, lampa, marka, maska, nabat, palka, rabat, salat, tanka, banka,
      barak, avtor, toska>>

\* a dictionary that holds three of the starter words, not in starter order
StarterDict == <<okras, kabak, toska, stena, tabak>>

\* a dictionary of more words than main prints
LongDict == BigDict \o BigDict \o <<okras>>

SuggestDicts == {BigDict, LoopDict, StarterDict, LongDict}

\* the candidate lists are the heads of these
CandidateBases ==
    { <<tabak, kabak, babka, banka, tanka, karta, kasta, maska, marka, lavka, palka,
        balka, salat>>,
      <<kazak, ataka, kanal, kabel, nabat, rabat, bazar, avans, lampa, salat, barak,
        almaz, tanka>> }

CandidateLists ==
    {SubSeq(b, 1, n) : b \in CandidateBases, n \in 0..MaxCandidates}

SuggestUnknown == {<<>>, <<"k">>}

\* lines 513 and 515: main prints the first ShownResults of more than
\* ManyResults words
ManyResults == 50
ShownResults == 20

\* the values of --limit: none, and the ints that cut short and long lists
SuggestLimits ==
    {NoLimit} \cup {<<n>> : n \in (-MaxLimit)..MaxLimit \cup {2 * MaxLimit + 3, MaxCandidates}}

\* lines 513-515: results after `if len(results) > 50 and not args.limit:
\* results = results[:20]`
shown_results(results, limit) ==
    IF Len(results) > ManyResults /\ (limit = NoLimit \/ limit[1] = 0)
    THEN slice_to(results, ShownResults)
    ELSE results

\* lines 502-515: the lists main can pass at line 543, those find_words
\* returned for the same arguments with any --no-sort and --limit, cut by
\* lines 513-515 (none when it raised)
FoundLists(ws, kn, un, ex) ==
    {shown_results(c[1].words, c[2]) :
        c \in {r \in {<<find_words(ws, kn, un, ex, sort_by_frequency, limit), limit>> :
                          sort_by_frequency \in BOOLEAN, limit \in SuggestLimits} :
                  ~ r[1].raised}}

\* the arguments as the command line gives them, capitals among them
SuggestKnown ==
    {Blank5, <<"_","a","_","_","_">>, <<"k","_","_","_","_">>, <<"_","A","_","_","_">>}

SuggestExcluded == {<<>>, <<"z">>, <<"e">>, <<"s", "o">>, <<"B">>}

InitSuggest ==
    /\ words_ \in SuggestDicts
    /\ known \in SuggestKnown
    /\ excluded \in SuggestExcluded
    /\ unknown \in SuggestUnknown
    /\ found \in CandidateLists \cup FoundLists(words_, known, unknown, excluded)
    /\ attempt = 1
    /\ last_suggested_word = None
    /\ pc = "call"
    /\ stats = <<>>
    /\ outcome = "start"
    /\ prior = None
    /\ target = None
    /\ last_guess = None
    /\ verdict = <<>>
    /\ call = None
    /\ heap = <<>>

\* line 227: random.choice draws only when there are no candidates and no
\* starter word is available
random_choices(ws, current_words, excluded_letters) ==
    IF current_words = <<>> /\ available_starters(ws, excluded_letters) = <<>>
    THEN 1..Len(ws) ELSE {1}

\* lines 542-543: excluded_set = set(args.excluded.lower());
\* suggested = helper.suggest_next_word(results, excluded_set,
\* args.known.lower(), args.unknown.lower()); call holds the arguments passed
CallSuggest ==
    /\ pc = "call"
    /\ \E excluded_set \in {set(lower(excluded))} :
       \E choice \in random_choices(words_, found, excluded_set) :
          /\ last_suggested_word' =
                suggest_next_word(words_, found, excluded_set, lower(known),
                                  lower(unknown), choice)
          /\ call' = [choice |-> choice, excluded_letters |-> excluded_set,
                      known |-> lower(known), unknown |-> lower(unknown)]
    /\ pc' = "ret"
    /\ outcome' = "returned"
    /\ UNCHANGED <<heap, words_, known, unknown, excluded, attempt, found, stats, prior,
                   target, last_guess, verdict>>

NextSuggest == CallSuggest

SpecSuggest == InitSuggest /\ [][NextSuggest]_vars

----------------------------------------------------------------------------
(* A game in which the user always plays the suggested word *)

FollowDicts == {LoopDict, DupDict, BigDict, <<babka, kabak, tabak>>}

InitFollow ==
    /\ words_ \in FollowDicts
    /\ target \in set(words_)
    /\ InitSession

\* the user types the suggested word with the verdict of the target
PlaySuggested ==
    /\ Feedback(word_line(last_suggested_word,
                          _compare_words(last_suggested_word, target)))
    /\ last_guess' = last_suggested_word
    /\ verdict' = _compare_words(last_suggested_word, target)

NextFollow == Round \/ PlaySuggested

SpecFollow == InitFollow /\ [][NextFollow]_vars

----------------------------------------------------------------------------
(* _compare_words called directly *)

ComparePool == {almaz, avans, ambar, abzac, babka, kabak, tabak, ataka, kazak, balka}

InitCompare ==
    /\ words_ = LoopDict
    /\ last_guess \in ComparePool
    /\ target \in ComparePool
    /\ known = Blank5
    /\ unknown = <<>>
    /\ excluded = <<>>
    /\ attempt = 1
    /\ last_suggested_word = None
    /\ pc = "call"
    /\ found = <<>>
    /\ stats = <<>>
    /\ outcome = "start"
    /\ prior = None
    /\ verdict = <<>>
    /\ call = None
    /\ heap = <<>>

\* pattern = self._compare_words(guess, target)
CallCompare ==
    /\ pc = "call"
    /\ verdict' = _compare_words(last_guess, target)
    /\ pc' = "ret"
    /\ outcome' = "returned"
    /\ UNCHANGED <<heap, words_, known, unknown, excluded, attempt, last_suggested_word,
                   found, stats, prior, target, last_guess, call>>

NextCompare == CallCompare

SpecCompare == InitCompare /\ [][NextCompare]_vars

----------------------------------------------------------------------------
(* find_words and suggest_next_word over the list and set objects they touch *)

\* an object is [kind, value]; heap[ref] is the object a reference names
list_object(v) == [kind |-> "list", value |-> v]

set_object(v) == [kind |-> "set", value |-> v]

\* the list self.words is bound to in __init__ (line 65)
SelfWords == 1

\* the set built once for the default excluded_letters=set() (line 221)
DefaultSet == 2

\* a list display, a comprehension, sorted(), a slice or set(): a new object
new_object(h, obj) == [heap |-> Append(h, obj), ref |-> Len(h) + 1]

\* as slice_list, the name bound to the list itself
slice_alias(h, ref, n) == [heap |-> h, ref |-> ref]

\* lines 117 and 242, filtered_words[:limit] and current_words[:10]: a new
\* list of the items of the slice
slice_list(h, ref, n) == new_object(h, list_object(slice_to(h[ref].value, n)))

\* line 259, candidate_words.extend(additional_candidates): writes to the
\* list candidate_words names
extend(h, ref, other) ==
    [h EXCEPT ![ref] = list_object(h[ref].value \o h[other].value)]

\* the caller's names outlive the call: the objects that existed before it
\* and the one it returned; the objects only its locals named are gone
after_return(h, before, ref) ==
    IF ref > before
    THEN [heap |-> Append(SubSeq(h, 1, before), h[ref]), ref |-> before + 1]
    ELSE [heap |-> SubSeq(h, 1, before), ref |-> ref]

\* find_words, lines 79-119, by the objects it makes: [raised, heap, ref],
\* ref the list it returns
find_words_objects(h, kn, un, ex, sort_by_frequency, limit) ==
    IF ~ _validate_inputs(kn, un, ex) \/ ~ _check_conflicts(lower(kn), lower(un), lower(ex))
    THEN [raised |-> TRUE, heap |-> h, ref |-> 0]
    ELSE LET value(o) == o.heap[o.ref].value
             \* line 172, a comprehension over self.words
             after_pattern ==
                 new_object(h, list_object(stage_pattern(h[SelfWords].value, lower(kn))))
             \* lines 180-187, filtered_words = [] and append
             after_inclusion ==
                 IF un # <<>>
                 THEN new_object(after_pattern.heap, list_object(
                          _filter_words_by_inclusion(value(after_pattern), lower(un))))
                 ELSE after_pattern
             \* line 192, a comprehension
             after_exclusion ==
                 IF ex # <<>>
                 THEN new_object(after_inclusion.heap, list_object(
                          _filter_words_by_exclusion(value(after_inclusion), lower(ex))))
                 ELSE after_inclusion
             \* line 199, sorted()
             sorted_words ==
                 IF sort_by_frequency /\ value(after_exclusion) # <<>>
                 THEN new_object(after_exclusion.heap, list_object(
                          _sort_by_frequency(value(after_exclusion))))
                 ELSE after_exclusion
             \* line 117, a slice
             limited ==
                 IF limit_applies(value(sorted_words), limit)
                 THEN slice_list(sorted_words.heap, sorted_words.ref, limit[1])
                 ELSE sorted_words
             returned == after_return(limited.heap, Len(h), limited.ref)
         IN  [raised |-> FALSE, heap |-> returned.heap, ref |-> returned.ref]

\* suggest_next_word, lines 221-278, by the objects it makes and writes:
\* [heap, word]; current_words and excluded_letters are references
suggest_next_word_objects(h, current_words, excluded_letters, kn, un, choice) ==
    IF Len(h[current_words].value) <= 5
    THEN [heap |-> h,
          word |-> suggest_next_word(h[SelfWords].value, h[current_words].value,
                                     h[excluded_letters].value, kn, un, choice)]
    ELSE LET candidates == slice_list(h, current_words, 10)
             additional == new_object(candidates.heap, list_object(
                               additional_candidates(h[SelfWords].value,
                                                     h[excluded_letters].value, kn)))
             scored     == extend(additional.heap, candidates.ref, additional.ref)
             best       == best_word(scored[candidates.ref].value,
                                     scored[current_words].value)
         IN  [heap |-> SubSeq(scored, 1, Len(h)),
              word |-> IF best # None THEN best ELSE scored[current_words].value[1]]

\* the most objects a run of calls makes
MaxObjects == 4

FrameDicts == {LoopDict, StarterDict, LongDict}

\* known, unknown, excluded, sort_by_frequency, limit of the find_words calls
FrameFindCalls ==
    { <<Blank5, <<>>, <<>>, TRUE, NoLimit>>,
      <<Blank5, <<>>, <<>>, FALSE, <<MaxLimit>>>>,
      <<<<"_","a","_","_","_">>, <<"k">>, <<"z">>, TRUE, <<MaxLimit>>>>,
      <<<<"_","a","_","_","_">>, <<"k">>, <<>>, FALSE, NoLimit>>,
      <<Blank5, <<>>, <<"a">>, TRUE, NoLimit>>,
      <<<<"_","a","_","_","_">>, <<>>, <<"a">>, TRUE, NoLimit>> }

FrameExcluded == {<<>>, <<"z">>, <<"o", "s">>}

refs(h, kind) == {r \in 1..Len(h) : h[r].kind = kind}

\* a helper just built: self.words and the default set of suggest_next_word
InitFrame ==
    /\ words_ \in FrameDicts
    /\ heap = <<list_object(words_), set_object({})>>
    /\ known = Blank5
    /\ unknown = <<>>
    /\ excluded = <<>>
    /\ attempt = 1
    /\ last_suggested_word = None
    /\ pc = "call"
    /\ found = <<>>
    /\ stats = <<>>
    /\ outcome = "start"
    /\ prior = None
    /\ target = None
    /\ last_guess = None
    /\ verdict = <<>>
    /\ call = None

\* results, stats = helper.find_words(...), lines 314 and 502-506
FrameFind ==
    /\ pc = "call"
    /\ Len(heap) < MaxObjects
    /\ \E args \in FrameFindCalls :
       \E r \in {find_words_objects(heap, args[1], args[2], args[3], args[4], args[5])} :
          /\ heap' = r.heap
          /\ call' = [op |-> "find_words", before |-> heap, args |-> args,
                      raised |-> r.raised, returned |-> r.ref,
                      result |-> IF r.raised THEN <<>> ELSE r.heap[r.ref].value]
    /\ pc' = "ret"
    /\ UNCHANGED <<words_, known, unknown, excluded, attempt, last_suggested_word,
                   found, stats, outcome, prior, target, last_guess, verdict>>

\* excluded_set = set(excluded), line 332, and
\* excluded_set = set(args.excluded.lower()), line 542
FrameSet ==
    /\ pc = "call"
    /\ Len(heap) < MaxObjects
    /\ \E letters \in FrameExcluded :
          heap' = new_object(heap, set_object(set(lower(letters)))).heap
    /\ UNCHANGED <<words_, known, unknown, excluded, attempt, last_suggested_word, pc,
                   found, stats, outcome, prior, target, last_guess, verdict, call>>

\* helper.suggest_next_word(results, excluded_set, known, unknown), lines 333
\* and 543 (where known is args.known.lower()), or with excluded_letters left
\* to its default
FrameSuggest ==
    /\ pc = "call"
    /\ \E current_words \in refs(heap, "list"), excluded_letters \in refs(heap, "set"),
          kn \in {lower(k) : k \in {Blank5, <<"_","a","_","_","_">>}} :
       \E choice \in random_choices(heap[SelfWords].value, heap[current_words].value,
                                    heap[excluded_letters].value) :
       \E r \in {suggest_next_word_objects(heap, current_words, excluded_letters,
                                           kn, <<>>, choice)} :
          /\ heap' = r.heap
          /\ call' = [op |-> "suggest_next_word", before |-> heap,
                      args |-> <<current_words, excluded_letters, kn, <<>>, choice>>,
                      raised |-> FALSE, returned |-> 0, result |-> r.word]
    /\ pc' = "ret"
    /\ UNCHANGED <<words_, known, unknown, excluded, attempt, last_suggested_word,
                   found, stats, outcome, prior, target, last_guess, verdict>>

\* line 513: `len(results) > 50 and not args.limit`, for the list a
\* find_words call returned; a limit of line 314 is never None or 0
many_results(c) ==
    /\ c.op = "find_words"
    /\ ~ c.raised
    /\ Len(c.result) > ManyResults
    /\ (c.args[5] = NoLimit \/ c.args[5][1] = 0)

\* line 515, results = results[:20]: results names a new list, and the list
\* find_words returned has no name left
rebind_slice(h, ref, n) ==
    LET sliced == slice_list(h, ref, n)
    IN  after_return(sliced.heap, ref - 1, sliced.ref).heap

\* the caller has used what the call returned and goes on to its next call;
\* after find_words main first runs lines 509-515
FrameReturn ==
    /\ pc = "ret"
    /\ pc' = "call"
    /\ heap' = IF many_results(call)
               THEN rebind_slice(heap, call.returned, ShownResults)
               ELSE heap
    /\ call' = None
    /\ UNCHANGED <<words_, known, unknown, excluded, attempt, last_suggested_word,
                   found, stats, outcome, prior, target, last_guess, verdict>>

NextFrame == FrameFind \/ FrameSet \/ FrameSuggest \/ FrameReturn

SpecFrame == InitFrame /\ [][NextFrame]_vars

----------------------------------------------------------------------------
(* Properties *)

\* the letters fixed in a known pattern
FixedLetters(kn) == set(kn) \ {"_"}

\* no letter is forbidden and also fixed or required
NoConflict(kn, un, ex) ==
    \A L \in set(ex) : L \notin FixedLetters(kn) /\ L \notin set(un)

\* word w meets the three constraints
Satisfies(w, kn, un, ex) ==
    /\ \A i \in 1..5 : kn[i] = "_" \/ w[i] = kn[i]
    /\ \A L \in set(un) : count(w, L) >= count(un, L)
    /\ \A i \in 1..5 : w[i] \notin set(ex)

\* C1: find_words without a limit, on constraints that pass validation,
\* returns every dictionary word that matches the fixed slots, holds each
\* required letter as often as required and holds no forbidden letter, as
\* often as the dictionary holds it, and nothing else; it returns (an empty
\* list when nothing matches) and does not fail.
C1_FindExact ==
    (pc = "ret" /\ call # None /\ call.limit = NoLimit /\ NoConflict(known, unknown, excluded))
    => /\ outcome = "returned"
       /\ \A w \in set(words_) \cup set(found) :
             count(found, w) = IF Satisfies(w, known, unknown, excluded)
                               THEN count(words_, w) ELSE 0

C1_Witness ==
    /\ pc = "ret" /\ call # None /\ call.limit = NoLimit /\ outcome = "returned"
    /\ known # Blank5
    /\ count(unknown, "a") = 2
    /\ excluded # <<>>
    /\ \E w \in set(found) : count(found, w) = 2
    /\ \E w \in set(words_) : ~ contains(found, w) /\ Satisfies(w, known, <<"a">>, excluded)

\* the round just read, while prior holds it
RoundAccepted == pc = "find" /\ outcome = "accepted" /\ prior # None

RoundPairs == accepted_pairs(strip(prior.line), prior.last)

RoundFixed == pass1(prior.known, RoundPairs)

\* <<required, forbidden>> after the first n pairs of pass 2
RoundRun(n) == pass2(RoundFixed, <<prior.unknown, prior.excluded>>, RoundPairs, n)

\* the round ends in the model that pass 1 and pass 2 leave
RoundResult ==
    /\ known = RoundFixed
    /\ <<unknown, excluded>> = RoundRun(5)
    /\ attempt = prior.attempt + 1

\* C2: a '?' pair with letter L adds one L to required when L is neither
\* fixed (after pass 1) nor required so far, adds one more L when L is fixed,
\* and leaves required alone when L is only required; it changes neither
\* its fixed slot nor forbidden.
C2_PresentElsewhere ==
    RoundAccepted =>
        /\ RoundResult
        /\ \A i \in 1..5 : RoundPairs[i][1] = "?" =>
            LET L      == RoundPairs[i][2]
                before == RoundRun(i - 1)
                after  == RoundRun(i)
            IN  /\ after[2] = before[2]
                /\ known[i] = prior.known[i]
                /\ IF ~ contains(RoundFixed, L) /\ ~ contains(before[1], L)
                   THEN after[1] = Append(before[1], L)
                   ELSE IF contains(RoundFixed, L)
                   THEN after[1] = Append(before[1], L)
                   ELSE after[1] = before[1]

C2_Witness ==
    /\ RoundAccepted
    /\ \E i, j, k \in 1..5 :
        /\ RoundPairs[i][1] = "?" /\ RoundPairs[j][1] = "?" /\ RoundPairs[k][1] = "?"
        /\ ~ contains(RoundFixed, RoundPairs[i][2])
        /\ ~ contains(RoundRun(i - 1)[1], RoundPairs[i][2])
        /\ contains(RoundFixed, RoundPairs[j][2])
        /\ ~ contains(RoundFixed, RoundPairs[k][2])
        /\ contains(RoundRun(k - 1)[1], RoundPairs[k][2])

\* C3: a '-' pair with letter L puts L into forbidden exactly when L is
\* neither fixed (after pass 1) nor required so far; otherwise forbidden is
\* left as it is; required and the pair's fixed slot never change.
C3_Absent ==
    RoundAccepted =>
        /\ RoundResult
        /\ \A i \in 1..5 : RoundPairs[i][1] = "-" =>
            LET L      == RoundPairs[i][2]
                before == RoundRun(i - 1)
                after  == RoundRun(i)
            IN  /\ after[1] = before[1]
                /\ known[i] = prior.known[i]
                /\ IF ~ contains(RoundFixed, L) /\ ~ contains(before[1], L)
                   THEN /\ set(after[2]) = set(before[2]) \cup {L}
                        /\ SubSeq(after[2], 1, Len(before[2])) = before[2]
                   ELSE after[2] = before[2]

C3_Witness ==
    /\ RoundAccepted
    /\ \E i, j, k \in 1..5 :
        /\ RoundPairs[i][1] = "-" /\ RoundPairs[j][1] = "-" /\ RoundPairs[k][1] = "-"
        /\ ~ contains(RoundFixed, RoundPairs[i][2])
        /\ ~ contains(RoundRun(i - 1)[1], RoundPairs[i][2])
        /\ ~ contains(RoundRun(i - 1)[2], RoundPairs[i][2])
        /\ contains(RoundRun(j - 1)[1], RoundPairs[j][2])
        /\ contains(RoundFixed, RoundPairs[k][2])

\* C4 as claimed: a '+' pair with letter L takes exactly one L out of
\* required when required holds L, and leaves the other instances.
C4_RemovesOne ==
    RoundAccepted =>
        \A i \in 1..5 : RoundPairs[i][1] = "+" =>
            LET L      == RoundPairs[i][2]
                before == RoundRun(i - 1)
                after  == RoundRun(i)
            IN  count(after[1], L) =
                    IF contains(before[1], L) THEN count(before[1], L) - 1 ELSE 0

\* C4, amended: a '+' pair with letter L takes every instance of L out of
\* required; the other letters of required keep their places and counts,
\* forbidden is left as it is, and the slot holds L.
C4_RemovesAll ==
    RoundAccepted =>
        /\ RoundResult
        /\ \A i \in 1..5 : RoundPairs[i][1] = "+" =>
            LET L      == RoundPairs[i][2]
                before == RoundRun(i - 1)
                after  == RoundRun(i)
                other(x) == x # L
            IN  /\ count(after[1], L) = 0
                /\ after[1] = SelectSeq(before[1], other)
                /\ after[2] = before[2]
                /\ known[i] = L

C4_Witness ==
    /\ RoundAccepted
    /\ \E i \in 1..5 :
        /\ RoundPairs[i][1] = "+"
        /\ count(RoundRun(i - 1)[1], RoundPairs[i][2]) >= 2
        /\ Len(RoundRun(i)[1]) >= 1

\* C5 as claimed: in every state of the loop no letter is forbidden and also
\* fixed or required.
C5_NeverConflict == NoConflict(known, unknown, excluded)

\* C5, amended: whenever find_words has taken the model without failing (the
\* loop is at the prompt or has ended), no letter is forbidden and also fixed
\* or required; a round of contradictory feedback can leave such a letter,
\* and find_words then fails.
C5_NoConflictOnceFound ==
    pc \in {"prompt", "done"} => NoConflict(known, unknown, excluded)

C5_Witness ==
    /\ pc = "prompt"
    /\ attempt = 3
    /\ unknown # <<>>
    /\ excluded # <<>>
    /\ known # Blank5

\* C6: position by position, _compare_words gives '+' where the letters
\* agree, else '?' where the guessed letter occurs in the target, else '-';
\* a letter the target holds once is '?' at each place it is guessed in vain,
\* and a word compared with itself is all '+'.
C6_Compare ==
    pc = "ret" =>
        /\ Len(verdict) = 5
        /\ \A i \in 1..5 :
              verdict[i] = IF last_guess[i] = target[i] THEN "+"
                           ELSE IF \E j \in 1..5 : target[j] = last_guess[i] THEN "?"
                           ELSE "-"
        /\ \A i, j \in 1..5 :
              (/\ i # j /\ last_guess[i] = last_guess[j]
               /\ count(target, last_guess[i]) = 1
               /\ target[i] # last_guess[i] /\ target[j] # last_guess[j])
              => verdict[i] = "?" /\ verdict[j] = "?"
        /\ (last_guess = target => verdict = <<"+", "+", "+", "+", "+">>)

C6_Witness ==
    /\ pc = "ret"
    /\ last_guess # target
    /\ \E i, j \in 1..5 :
        /\ i # j /\ last_guess[i] = last_guess[j]
        /\ count(target, last_guess[i]) = 1
        /\ verdict[i] = "?" /\ verdict[j] = "?"
    /\ \E i \in 1..5 : verdict[i] = "+"
    /\ \E i \in 1..5 : verdict[i] = "-"

\* C7: on well-formed input find_words fails exactly when a forbidden letter
\* is also required or fixed (a letter both fixed and required does no
\* harm), and when it fails there is no list and there are no stats.
C7_FailsOnConflict ==
    pc = "ret" =>
        /\ outcome = "error" <=>
              \E L \in set(excluded) : L \in set(unknown) \/ L \in FixedLetters(known)
        /\ outcome = "error" => found = <<>> /\ stats = <<>>
        /\ outcome = "returned" => "after_pattern" \in DOMAIN stats

C7_Witness ==
    /\ pc = "ret"
    /\ outcome = "error"
    /\ FixedLetters(known) \cap set(unknown) # {}
    /\ FixedLetters(known) \cap set(excluded) # {}
    /\ set(unknown) \cap set(excluded) = {}

\* C8: in a game whose target the dictionary holds once, the round that
\* plays the target (all '+') leaves fixed equal to the target, and
\* find_words on that model returns the target alone.
C8_RoundTrip ==
    (RoundAccepted /\ last_guess = target /\ count(words_, target) = 1)
    => /\ verdict = <<"+", "+", "+", "+", "+">>
       /\ known = target
       /\ ~ find_words(words_, known, unknown, excluded, TRUE, NoLimit).raised
       /\ find_words(words_, known, unknown, excluded, TRUE, NoLimit).words = <<target>>

C8_Witness ==
    /\ RoundAccepted /\ last_guess = target /\ count(words_, target) = 1
    /\ prior.attempt = 2
    /\ prior.unknown # <<>>
    /\ prior.excluded # <<>>
    /\ prior.known # Blank5
    /\ known = target

\* C9 as claimed: after a ValidationError in a round the loop comes back to
\* the prompt.
C9_BackToPrompt == (pc = "except") ~> (pc = "prompt")

\* the pairs of a status symbol with a letter right after it
PairCount(result_input) ==
    Cardinality({i \in 1..(Len(result_input) - 1) :
                    result_input[i] \in StatusChars /\ isalpha(result_input[i + 1])})

\* the line just read is feedback (no control word, not empty) whose pairs
\* are not five or whose word is not five letters long
BadFeedback ==
    LET parts == split1(strip(prior.line))
    IN  /\ strip(prior.line) # <<>>
        /\ lower(strip(prior.line)) \notin QuitWords \cup ResetWords
        /\ \/ PairCount(parts[Len(parts)]) # 5
           \/ Len(parts) = 2 /\ Len(parts[1]) # 5

\* C10 as claimed: such a line is rejected; fixed, required, forbidden and
\* the attempt counter stay, and the loop goes on to prompt again.
C10_Rejected ==
    (pc # "prompt" /\ prior # None /\ BadFeedback)
    => /\ outcome = "rejected"
       /\ pc = "find"
       /\ known = prior.known /\ unknown = prior.unknown
       /\ excluded = prior.excluded /\ attempt = prior.attempt

\* C11 as claimed: when a letter L is fixed in some slots and also occurs m
\* times in required, every word find_words returns holds L at least m
\* times outside the slots where L is fixed.
C11_RequiredElsewhere ==
    (pc = "ret" /\ outcome = "returned") =>
        \A L \in FixedLetters(known) \cap set(unknown) :
            \A i \in 1..Len(found) :
                Cardinality({p \in 1..5 : found[i][p] = L /\ known[p] # L})
                    >= count(unknown, L)

\* the dictionary words, in dictionary order, that agree with every fixed
\* slot and hold no forbidden letter
QualifyingWords ==
    LET qualifies(w) == /\ \A i \in 1..5 : call.known[i] = "_" \/ w[i] = call.known[i]
                        /\ \A i \in 1..5 : w[i] \notin call.excluded_letters
    IN  SelectSeq(words_, qualifies)

\* the first 10 candidates, then the first 20 qualifying dictionary words
ScoredPool ==
    SubSeq(found, 1, Min(10, Len(found)))
        \o SubSeq(QualifyingWords, 1, Min(20, Len(QualifyingWords)))

\* the verdict of g against each candidate
CandidateVerdicts(g) ==
    SubSeq([c \in 1..Len(found) |-> SubSeq(_compare_words(g, found[c]), 1, Len(g))],
           1, Len(found))

\* the sizes of the groups of candidates by their verdict for g; v is the
\* value of CandidateVerdicts, taken once
GroupSizes(g) ==
    LET sizes(v) == {Cardinality({j \in 1..Len(v) : v[j] = v[c]}) : c \in 1..Len(v)}
    IN  CHOOSE s \in {sizes(v) : v \in {CandidateVerdicts(g)}} : TRUE

\* the score of the claim for the pool word g, as the float the program
\* computes: groups - largest / n, plus 0.5 for a candidate
PoolScore(g) ==
    LET distinct == Cardinality({_compare_words(g, found[c]) : c \in 1..Len(found)})
        largest  == CHOOSE m \in {CHOOSE top \in sizes : \A k \in sizes : k <= top :
                                     sizes \in {GroupSizes(g)}} : TRUE
        spread(q) == float_minus(float_of_int(distinct), q)
        base     == CHOOSE x \in {spread(q) : q \in {float_div(largest, Len(found))}} : TRUE
    IN  IF \E c \in 1..Len(found) : found[c] = g
        THEN CHOOSE x \in {float_add(y, float_div(1, 2)) : y \in {base}} : TRUE
        ELSE base

\* C12: for more than 5 candidates suggest_next_word returns the word of the
\* pool (first 10 candidates, then the first 20 qualifying dictionary
\* words) whose score groups - largest / n + 0.5 (for a candidate) is
\* highest, the first of the pool among equal scores.
C12_BestOfPool ==
    (pc = "ret" /\ Len(found) > 5) =>
        \E pool \in {ScoredPool} :
        \E scores \in {{<<i, PoolScore(pool[i])>> : i \in 1..Len(pool)}} :
        \E best \in scores :
            /\ last_suggested_word = pool[best[1]]
            /\ \A other \in scores :
                  \/ float_less(other[2], best[2])
                  \/ other[2] = best[2] /\ other[1] >= best[1]

\* a call on the list find_words returned for the same arguments: more than
\* 10 candidates, more than 20 qualifying dictionary words, a pool word that
\* is no candidate, and a word other than the first candidate returned
C12_Witness ==
    /\ pc = "ret"
    /\ found \in FoundLists(words_, known, unknown, excluded)
    /\ Len(found) > 10
    /\ Len(QualifyingWords) > 20
    /\ \E i \in 1..Len(ScoredPool) : ~ contains(found, ScoredPool[i])
    /\ last_suggested_word # found[1]

\* C13: for 1 or 2 candidates suggest_next_word returns the first, for 3, 4
\* or 5 the one at index len // 2 (counted from 0); the word is one of the
\* candidates whatever the dictionary, the constraints and the random draw.
C13_ShortList ==
    (pc = "ret" /\ Len(found) >= 1 /\ Len(found) <= 5) =>
        /\ last_suggested_word =
              IF Len(found) <= 2 THEN found[1] ELSE found[(Len(found) \div 2) + 1]
        /\ \E i \in 1..Len(found) : found[i] = last_suggested_word

C13_Witness ==
    /\ pc = "ret"
    /\ Len(found) = 5
    /\ last_suggested_word = found[3]
    /\ last_suggested_word # found[1]
    /\ ~ contains(words_, last_suggested_word)
    /\ \E i \in 1..5 : call.known[i] # "_" /\ call.known[i] # last_suggested_word[i]

\* the starter words, in starter order, that the dictionary holds and that
\* hold no forbidden letter
UsableStarters ==
    LET usable(w) == /\ \E j \in 1..Len(words_) : words_[j] = w
                     /\ \A i \in 1..Len(w) : w[i] \notin call.excluded_letters
    IN  SelectSeq(STARTER_WORDS, usable)

\* C14: without candidates suggest_next_word returns the first usable
\* starter word; when there is none it returns some word of the dictionary;
\* either way the word is in the dictionary.
C14_Starter ==
    (pc = "ret" /\ found = <<>>) =>
        /\ UsableStarters # <<>> => last_suggested_word = UsableStarters[1]
        /\ \E j \in 1..Len(words_) : words_[j] = last_suggested_word

C14_Witness ==
    /\ pc = "ret"
    /\ found = <<>>
    /\ excluded # <<>>
    /\ Len(UsableStarters) >= 2
    /\ last_suggested_word = UsableStarters[1]
    /\ last_suggested_word # words_[1]
    /\ \E i \in 1..Len(STARTER_WORDS) :
          /\ contains(words_, STARTER_WORDS[i])
          /\ ~ contains(UsableStarters, STARTER_WORDS[i])
          /\ \E k \in 1..Len(STARTER_WORDS) :
                STARTER_WORDS[k] = last_suggested_word /\ i < k

\* C15 as claimed: the session ends only on a quit command; no line of
\* feedback makes the loop exit.
C15_EndsOnQuit == pc = "done" => outcome = "quit"

\* the list and the stats of the same call made without a limit
Unlimited ==
    find_words(words_, known, unknown, excluded, call.sort_by_frequency, NoLimit)

\* C16 as claimed: with a limit N >= 0 find_words returns the first
\* min(N, total) words of the filtered (and sorted) list, in their order,
\* never more than N, and the stats are those of the whole list.
C16_FirstN ==
    (pc = "ret" /\ outcome = "returned" /\ call.limit # NoLimit /\ call.limit[1] >= 0) =>
        /\ found = SubSeq(Unlimited.words, 1, Min(call.limit[1], Len(Unlimited.words)))
        /\ Len(found) <= call.limit[1]
        /\ stats = Unlimited.stats

\* C17: after any run of find_words and suggest_next_word calls on one
\* helper, the dictionary is the one that was loaded, every list and set
\* that existed before the last call (the candidate list and the forbidden
\* set passed to it among them) is as it was, the default forbidden set is
\* empty, the list find_words returned is an object that did not exist
\* before the call, and the call returned what it returns on a helper just
\* built.
C17_Frame ==
    (pc = "ret") =>
        /\ heap[SelfWords].value = words_
        /\ \A r \in 1..Len(call.before) : heap[r] = call.before[r]
        /\ heap[DefaultSet].value = {}
        /\ (call.op = "find_words") =>
              LET fresh == find_words(words_, call.args[1], call.args[2], call.args[3],
                                      call.args[4], call.args[5])
              IN  /\ call.raised = fresh.raised
                  /\ call.result = fresh.words
                  /\ ~ fresh.raised => /\ call.returned > Len(call.before)
                                       /\ heap[call.returned].value = call.result
        /\ (call.op = "suggest_next_word") =>
              call.result =
                  suggest_next_word(words_, call.before[call.args[1]].value,
                                    call.before[call.args[2]].value,
                                    call.args[3], call.args[4], call.args[5])

\* suggest_next_word has scored a pool for a list find_words returned, with
\* the default forbidden set, after an earlier call with a forbidden set
C17_Witness ==
    /\ pc = "ret"
    /\ call.op = "suggest_next_word"
    /\ Len(call.before) = MaxObjects
    /\ call.before[3].kind = "set"
    /\ call.before[3].value # {}
    /\ call.args[1] = 4
    /\ call.args[2] = DefaultSet
    /\ Len(call.before[4].value) > 5
    /\ additional_candidates(words_, {}, call.args[3]) # <<>>

\* C18 as claimed: in a game (the target is in the dictionary, every line is
\* a word with _compare_words(word, target)) find_words on the current
\* model raises no ValidationError and returns the target, whatever rounds
\* have been played.
C18_TargetKept ==
    /\ outcome # "error"
    /\ ~ find_words(words_, known, unknown, excluded, TRUE, NoLimit).raised
    /\ contains(find_words(words_, known, unknown, excluded, TRUE, NoLimit).words, target)

\* C19 as claimed: in a game, after an accepted round whose word is not the
\* target, find_words on the updated model does not return that word.
C19_GuessEliminated ==
    (RoundAccepted /\ last_guess # target) =>
        ~ contains(find_words(words_, known, unknown, excluded, TRUE, NoLimit).words,
                   last_guess)

\* C20 as claimed: in a game in which every round plays the suggested word,
\* no round leaves known, unknown and excluded as they were (the next round
\* would find the same candidates and suggest the same word, and so on for
\* ever), and the session ends only by announcing the target, the one
\* candidate left.
C20_Converges ==
    /\ RoundAccepted =>
          <<known, unknown, excluded>> # <<prior.known, prior.unknown, prior.excluded>>
    /\ (pc = "done") => (outcome = "answer" /\ found = <<target>>)

\* C21 as claimed: after an accepted round in which a letter L has a '+'
\* pair at one slot and a '?' pair at another, required holds L and the
\* '+' slot of fixed is L, whichever of the two pairs comes first.
C21_AnyOrder ==
    RoundAccepted =>
        \A i, j \in 1..5 :
            (/\ RoundPairs[i][1] = "+"
             /\ RoundPairs[j][1] = "?"
             /\ RoundPairs[j][2] = RoundPairs[i][2])
            => /\ contains(unknown, RoundPairs[i][2])
               /\ known[i] = RoundPairs[i][2]

\* the candidates and the suggestion of the first round of a session just
\* started
FirstFound == find_words(words_, Blank5, <<>>, <<>>, TRUE, <<InteractiveLimit>>).words

FirstSuggested == suggest_next_word(words_, FirstFound, {}, Blank5, <<>>, 1)

\* C22: right after a reset command fixed is all wildcards, required and
\* forbidden are empty, the attempt counter is 1 and no suggested word is
\* remembered, whatever rounds came before; the round that follows finds
\* the candidates and suggests the word of the first round of a session
\* just started.
C22_Reset ==
    /\ [](outcome = "reset" =>
            /\ pc = "find"
            /\ known = <<"_", "_", "_", "_", "_">>
            /\ unknown = <<>>
            /\ excluded = <<>>
            /\ attempt = 1
            /\ last_suggested_word = None)
    /\ [][outcome = "reset" =>
            /\ found' = FirstFound
            /\ last_suggested_word' = FirstSuggested
            /\ outcome' = "suggested"
            /\ attempt' = 1]_vars

\* a reset command read after two accepted rounds that fixed, required and
\* forbade letters and left a suggested word remembered
C22_Witness ==
    /\ outcome = "reset"
    /\ prior # None
    /\ prior.attempt = MaxAttempt
    /\ prior.known # Blank5
    /\ prior.unknown # <<>>
    /\ prior.excluded # <<>>
    /\ prior.last # None
    /\ FirstSuggested # prior.last

====
